---- MODULE Spec2Model ----
(***************************************************************************)
(* Faculty scraper (src/app.py): the e-mail extraction and ranking         *)
(* functions, the profile parser, the pagination follower, the site crawl  *)
(* orchestrator, the multi-site orchestrator and the job runner.           *)
(*                                                                         *)
(* A Python str is modelled as a sequence of characters, each character a  *)
(* one-element string; code points outside ASCII are named ("U+70B9").     *)
(***************************************************************************)
EXTENDS Integers, Sequences, FiniteSets, TLC

(* ------------------------------------------------------------------ *)
(* Characters and character classes of Python's re                     *)
(* ------------------------------------------------------------------ *)
LowerAlpha == <<"a","b","c","d","e","f","g","h","i","j","k","l","m",
                "n","o","p","q","r","s","t","u","v","w","x","y","z">>
UpperAlpha == <<"A","B","C","D","E","F","G","H","I","J","K","L","M",
                "N","O","P","Q","R","S","T","U","V","W","X","Y","Z">>
Lowers == {LowerAlpha[i] : i \in DOMAIN LowerAlpha}
Uppers == {UpperAlpha[i] : i \in DOMAIN UpperAlpha}
Letters == Lowers \cup Uppers
Digits == {"0","1","2","3","4","5","6","7","8","9"}
Alnum == Letters \cup Digits
\* the code points the source names outside ASCII
FWAT == "U+FF20"
DIAN == "U+70B9"
FWLP == "U+FF08"
FWRP == "U+FF09"
\* the code points of [\u4e00-\u9fff] that the source's word lists name
CJKIdeographs ==
  {"U+4E00", "U+4E0B", "U+4E2A", "U+526F", "U+52A9", "U+540E", "U+5458", "U+5BFC", "U+5E08", "U+6388", "U+6559", "U+70B9", "U+7406", "U+8BB2", "U+9801", "U+9875"}
\* \s and \w of a str pattern
WS == {" ", "\t", "\n", "\r", "\f"}
WordCh == Alnum \cup {"_"} \cup CJKIdeographs

ToLowerChar(c) ==
  IF c \in Uppers
    THEN LowerAlpha[CHOOSE i \in DOMAIN UpperAlpha : UpperAlpha[i] = c]
    ELSE c
ToUpperChar(c) ==
  IF c \in Lowers
    THEN UpperAlpha[CHOOSE i \in DOMAIN LowerAlpha : LowerAlpha[i] = c]
    ELSE c
\* str.lower()
Lower(s) == [i \in 1..Len(s) |-> ToLowerChar(s[i])]

\* s[i:j] of Python written with 1-based inclusive positions
Slice(s, i, j) == IF i > j THEN <<>> ELSE SubSeq(s, i, j)

\* Python None, the result of an optional that is absent
None == <<"None">>

(* ------------------------------------------------------------------ *)
(* A backtracking matcher with the priority order of Python's re       *)
(* ------------------------------------------------------------------ *)
Eps == [t |-> "eps"]
\* $ of Python's re: the end of the string, or just before a final newline
Dollar == [t |-> "dollar"]
Cls(S) == [t |-> "cls", c |-> S]
Ch(c) == Cls({c})
\* a literal character under re.I
ChI(c) == Cls({ToLowerChar(c), ToUpperChar(c)})
Cat(a, b) == [t |-> "cat", a |-> a, b |-> b]
Alt(a, b) == [t |-> "alt", a |-> a, b |-> b]
Opt(a) == [t |-> "opt", a |-> a]
Star(a) == [t |-> "star", a |-> a]
Plus(a) == Cat(a, Star(a))

RECURSIVE CatAll(_)
CatAll(rs) == IF rs = <<>> THEN Eps
              ELSE IF Len(rs) = 1 THEN rs[1]
              ELSE Cat(Head(rs), CatAll(Tail(rs)))
RECURSIVE AltAll(_)
AltAll(rs) == IF Len(rs) = 1 THEN rs[1] ELSE Alt(Head(rs), AltAll(Tail(rs)))
\* a literal word, case-sensitive or under re.I
Word(w) == CatAll([i \in 1..Len(w) |-> Ch(w[i])])
WordI(w) == CatAll([i \in 1..Len(w) |-> ChI(w[i])])
\* a{0,k} and a{m,n}, greedy
RECURSIVE UpTo(_, _)
UpTo(a, k) == IF k = 0 THEN Eps ELSE Opt(Cat(a, UpTo(a, k - 1)))
RECURSIVE Rep(_, _, _)
Rep(a, m, n) == IF m = 0 THEN UpTo(a, n) ELSE Cat(a, Rep(a, m - 1, n - 1))

\* the end positions of the matches of re that start at i, in the order a
\* backtracking matcher tries them (the first is the match re.match reports)
RECURSIVE Ends(_, _, _)
RECURSIVE EndsFrom(_, _, _)
Ends(re, s, i) ==
  CASE re.t = "eps"  -> <<i>>
    [] re.t = "dollar" ->
         IF i = Len(s) + 1 \/ (i = Len(s) /\ s[i] = "\n") THEN <<i>> ELSE <<>>
    [] re.t = "cls"  -> IF i <= Len(s) /\ s[i] \in re.c THEN <<i + 1>> ELSE <<>>
    [] re.t = "cat"  -> EndsFrom(Ends(re.a, s, i), re.b, s)
    [] re.t = "alt"  -> Ends(re.a, s, i) \o Ends(re.b, s, i)
    [] re.t = "opt"  -> Ends(re.a, s, i) \o <<i>>
    [] re.t = "star" ->
         EndsFrom(SelectSeq(Ends(re.a, s, i), LAMBDA e : e > i), re, s) \o <<i>>
EndsFrom(starts, re, s) ==
  IF starts = <<>> THEN <<>>
  ELSE Ends(re, s, Head(starts)) \o EndsFrom(Tail(starts), re, s)

NoMatch == [start |-> 0, end |-> 0]
\* re.search from position pos: the leftmost start, then the first end
RECURSIVE SearchFrom(_, _, _)
SearchFrom(re, s, pos) ==
  IF pos > Len(s) + 1 THEN NoMatch
  ELSE LET es == Ends(re, s, pos)
       IN IF es # <<>> THEN [start |-> pos, end |-> Head(es)]
          ELSE SearchFrom(re, s, pos + 1)
Search(re, s) == SearchFrom(re, s, 1)
\* the text of a match
Group0(s, m) == Slice(s, m.start, m.end - 1)
\* re.fullmatch
FullMatch(re, s) == \E k \in 1..Len(Ends(re, s, 1)) : Ends(re, s, 1)[k] = Len(s) + 1

\* re.sub: non-overlapping matches left to right, each replaced by repl
\* (an empty match copies one character and moves on)
RECURSIVE SubFrom(_, _, _, _)
SubFrom(re, repl, s, pos) ==
  LET m == SearchFrom(re, s, pos)
  IN IF m = NoMatch THEN Slice(s, pos, Len(s))
     ELSE IF m.end = m.start
       THEN Slice(s, pos, m.start - 1) \o repl \o
            (IF m.start <= Len(s) THEN <<s[m.start]>> \o SubFrom(re, repl, s, m.start + 1)
             ELSE <<>>)
     ELSE Slice(s, pos, m.start - 1) \o repl \o SubFrom(re, repl, s, m.end)
Sub(re, repl, s) == SubFrom(re, repl, s, 1)
\* str.replace
Replace(s, old, new) == Sub(Word(old), new, s)

\* re.findall / finditer for a pattern without empty matches
RECURSIVE FindAllFrom(_, _, _)
FindAllFrom(re, s, pos) ==
  LET m == SearchFrom(re, s, pos)
  IN IF m = NoMatch \/ m.end = m.start THEN <<>>
     ELSE <<Group0(s, m)>> \o FindAllFrom(re, s, m.end)
FindAll(re, s) == FindAllFrom(re, s, 1)

\* re.split; with keep the separators are part of the list (a capturing group)
RECURSIVE SplitFrom(_, _, _, _)
SplitFrom(re, s, pos, keep) ==
  LET m == SearchFrom(re, s, pos)
  IN IF m = NoMatch \/ m.end = m.start THEN <<Slice(s, pos, Len(s))>>
     ELSE <<Slice(s, pos, m.start - 1)>> \o
          (IF keep THEN <<Group0(s, m)>> ELSE <<>>) \o
          SplitFrom(re, s, m.end, keep)
Split(re, s, keep) == SplitFrom(re, s, 1, keep)

\* x in s for two str
IsSubstring(x, s) ==
  \E i \in 1..(Len(s) + 1) : i + Len(x) - 1 <= Len(s) /\ Slice(s, i, i + Len(x) - 1) = x
\* str.startswith / str.endswith
StartsWith(s, p) == Len(p) <= Len(s) /\ Slice(s, 1, Len(p)) = p
EndsWith(s, p) == Len(p) <= Len(s) /\ Slice(s, Len(s) - Len(p) + 1, Len(s)) = p

\* the first element of a sequence satisfying a test, or 0
FirstIdx(seq, Test(_)) ==
  IF \E k \in 1..Len(seq) : Test(seq[k])
    THEN CHOOSE k \in 1..Len(seq) : Test(seq[k]) /\ \A j \in 1..(k - 1) : ~Test(seq[j])
    ELSE 0

(* ------------------------------------------------------------------ *)
(* E-mail extraction: EMAIL_TOKEN_PATTERNS, normalize_email,           *)
(* extract_emails                                                      *)
(* ------------------------------------------------------------------ *)
WSs == Star(Cls(WS))
WSp == Plus(Cls(WS))
\* [A-Z0-9._%+-] and [A-Z0-9.-] under re.I, [A-Za-z0-9-]
LocalCh == Alnum \cup {".", "_", "%", "+", "-"}
DomainCh == Alnum \cup {".", "-"}
LabelCh == Alnum \cup {"-"}

\* BASIC_EMAIL_RE = [A-Z0-9._%+-]+@[A-Z0-9.-]+\.[A-Z]{2,24} with re.I
BASIC_EMAIL_RE ==
  CatAll(<<Plus(Cls(LocalCh)), Ch("@"), Plus(Cls(DomainCh)), Ch("."),
           Rep(Cls(Letters), 2, 24)>>)

\* EMAIL_TOKEN_PATTERNS, in the order of the source
TokenPatterns ==
  << \* \s*\[?\s*at\s*\]?\s*
     [pat |-> CatAll(<<WSs, Opt(Ch("[")), WSs, WordI(<<"a","t">>), WSs, Opt(Ch("]")), WSs>>),
      repl |-> <<"@">>],
     \* \s*\(?\s*at\s*\)?\s*
     [pat |-> CatAll(<<WSs, Opt(Ch("(")), WSs, WordI(<<"a","t">>), WSs, Opt(Ch(")")), WSs>>),
      repl |-> <<"@">>],
     \* \s*(fullwidth @)\s*
     [pat |-> CatAll(<<WSs, Ch(FWAT), WSs>>), repl |-> <<"@">>],
     \* \s*\[?\s*#\s*\]?\s*
     [pat |-> CatAll(<<WSs, Opt(Ch("[")), WSs, Ch("#"), WSs, Opt(Ch("]")), WSs>>),
      repl |-> <<"@">>],
     \* \s*\(\s*dot\s*\)|\[\s*dot\s*\]|\{\s*dot\s*\}
     [pat |-> AltAll(<<
        CatAll(<<WSs, Ch("("), WSs, WordI(<<"d","o","t">>), WSs, Ch(")")>>),
        CatAll(<<Ch("["), WSs, WordI(<<"d","o","t">>), WSs, Ch("]")>>),
        CatAll(<<Ch("{"), WSs, WordI(<<"d","o","t">>), WSs, Ch("}")>>)>>),
      repl |-> <<".">>],
     \* [(fullwidth ( or ")")]?(dian)[(fullwidth ")" or ")")]?
     [pat |-> CatAll(<<Opt(Cls({FWLP, ")"})), Ch(DIAN), Opt(Cls({FWRP, ")"}))>>),
      repl |-> <<".">>],
     \* \s+dot\s+
     [pat |-> CatAll(<<WSp, WordI(<<"d","o","t">>), WSp>>), repl |-> <<".">>],
     \* \s+at\s+
     [pat |-> CatAll(<<WSp, WordI(<<"a","t">>), WSp>>), repl |-> <<"@">>],
     \* \s*\(remove\)|\(no\s*spam\)
     [pat |-> Alt(CatAll(<<WSs, WordI(<<"(","r","e","m","o","v","e",")">>)>>),
                  CatAll(<<WordI(<<"(","n","o">>), WSs, WordI(<<"s","p","a","m",")">>)>>)),
      repl |-> <<>>] >>

\* the for loop of normalize_email: every pattern substituted in turn
RECURSIVE ApplyPatterns(_, _)
ApplyPatterns(pats, s) ==
  IF pats = <<>> THEN s
  ELSE ApplyPatterns(Tail(pats), Sub(Head(pats).pat, Head(pats).repl, s))

\* the str.replace calls that follow the loop
LiteralReplaces(s) ==
  LET s1 == Replace(Replace(s, <<FWLP>>, <<"(">>), <<FWRP>>, <<")">>)
      s2 == Replace(s1, <<"[","a","t","]">>, <<"@">>)
      s3 == Replace(s2, <<"{","a","t","}">>, <<"@">>)
      s4 == Replace(s3, <<"[","d","o","t","]">>, <<".">>)
  IN Replace(s4, <<"{","d","o","t","}">>, <<".">>)

\* ([A-Za-z0-9._%+-]+)\s+([A-Za-z0-9.-]+\.[A-Za-z]{2,24})
M2Group1 == Plus(Cls(LocalCh))
M2Group2 == CatAll(<<Plus(Cls(DomainCh)), Ch("."), Rep(Cls(Letters), 2, 24)>>)
\* ([A-Za-z0-9._%+-]+)\s+(([A-Za-z0-9-]+)\s+(edu|ac|com|org|cn|uk|de|fr|jp|kr)(\s+\w{2})?)
M3Tlds == <<<<"e","d","u">>, <<"a","c">>, <<"c","o","m">>, <<"o","r","g">>, <<"c","n">>,
            <<"u","k">>, <<"d","e">>, <<"f","r">>, <<"j","p">>, <<"k","r">>>>
M3Group2 ==
  CatAll(<<Plus(Cls(LabelCh)), WSp,
           AltAll([i \in 1..Len(M3Tlds) |-> WordI(M3Tlds[i])]),
           Opt(Cat(WSp, Rep(Cls(WordCh), 2, 2)))>>)

\* the groups of the leftmost match of (g1)\s+(g2): [g1, g2] or NoMatch.
\* The match starts at start; e1 is where group 1 ends and e2 where group 2
\* begins, each the first choice of the backtracking search that lets the
\* rest of the pattern match.
Group1End(g1, g2, s, start) ==
  LET e1s == Ends(g1, s, start)
  IN e1s[FirstIdx(e1s, LAMBDA e : Ends(Cat(WSp, g2), s, e) # <<>>)]
Group2Start(g2, s, e1) ==
  LET e2s == Ends(WSp, s, e1)
  IN e2s[FirstIdx(e2s, LAMBDA e : Ends(g2, s, e) # <<>>)]
GroupsFrom(g2, s, start, e1, e2) ==
  [g1 |-> Slice(s, start, e1 - 1), g2 |-> Slice(s, e2, Head(Ends(g2, s, e2)) - 1)]
GroupsAfter(g2, s, start, e1) == GroupsFrom(g2, s, start, e1, Group2Start(g2, s, e1))
GroupsAt(g1, g2, s, start) == GroupsAfter(g2, s, start, Group1End(g1, g2, s, start))
TwoGroups(g1, g2, s) ==
  LET m == Search(CatAll(<<g1, WSp, g2>>), s)
  IN IF m = NoMatch THEN NoMatch ELSE GroupsAt(g1, g2, s, m.start)

\* ".".join(parts)
RECURSIVE JoinDot(_)
JoinDot(parts) ==
  IF parts = <<>> THEN <<>>
  ELSE IF Len(parts) = 1 THEN parts[1]
  ELSE Head(parts) \o <<".">> \o JoinDot(Tail(parts))
\* parts[-3:]
Last3(parts) == Slice(parts, IF Len(parts) > 3 THEN Len(parts) - 2 ELSE 1, Len(parts))

\* if BASIC_EMAIL_RE.fullmatch(cand): return cand
ValidOrNone(cand) == IF FullMatch(BASIC_EMAIL_RE, cand) THEN cand ELSE None

\* the domain of the m3 branch: the last three tokens joined by dots
M3Domain(parts, g2) ==
  IF Len(parts) >= 2 THEN JoinDot(Last3(parts)) ELSE Sub(Ch(" "), <<".">>, g2)
M3Join(g) ==
  IF g = NoMatch THEN None
  ELSE ValidOrNone(g.g1 \o <<"@">> \o M3Domain(FindAll(Plus(Cls(LabelCh)), g.g2), g.g2))
\* the m3 branch of normalize_email: a domain split into tokens across spaces
M3Candidate(s) == M3Join(TwoGroups(M2Group1, M3Group2, s))

M2Join(g) == IF g = NoMatch THEN None ELSE ValidOrNone(g.g1 \o <<"@">> \o g.g2)
\* the m2 branch: "local domain.tld" separated by spaces only
M2Candidate(s) == M2Join(TwoGroups(M2Group1, M2Group2, s))

\* the first of two results that is an address
FirstAddress(a, b) == IF a # None THEN a ELSE b

\* normalize_email after the substitutions: the search for an address in s
AddressIn(s) ==
  LET m == Search(BASIC_EMAIL_RE, s)
  IN IF m # NoMatch THEN Group0(s, m) ELSE FirstAddress(M2Candidate(s), M3Candidate(s))

\* normalize_email(text) -> an address or None
normalize_email(text) ==
  IF text = <<>> THEN None
  ELSE AddressIn(LiteralReplaces(ApplyPatterns(TokenPatterns, text)))

\* the uniq loop of extract_emails: first occurrences, in order
RECURSIVE Uniq(_, _)
Uniq(xs, seen) ==
  IF xs = <<>> THEN <<>>
  ELSE IF Head(xs) \in seen THEN Uniq(Tail(xs), seen)
  ELSE <<Head(xs)>> \o Uniq(Tail(xs), seen \cup {Head(xs)})

\* "".join(words)
RECURSIVE Concat(_)
Concat(ws) == IF ws = <<>> THEN <<>> ELSE Head(ws) \o Concat(Tail(ws))

\* if e: found.append(e)
Found(e) == IF e # None THEN <<e>> ELSE <<>>
\* [normalize_email(x) for x in xs if it returns an address]
RECURSIVE NormalizeEach(_)
NormalizeEach(xs) ==
  IF xs = <<>> THEN <<>>
  ELSE Found(normalize_email(Head(xs))) \o NormalizeEach(Tail(xs))

\* the sliding windows of five words (separators kept), each joined into one string
Windows(words) ==
  [i \in 1..(IF Len(words) - 4 > 0 THEN Len(words) - 4 ELSE 0) |->
     Concat(Slice(words, i, i + 4))]

\* extract_emails(text) -> the unique addresses found, first seen first:
\* the direct matches, then the tokens, then the windows
extract_emails(text) ==
  IF text = <<>> THEN <<>>
  ELSE Uniq(FindAll(BASIC_EMAIL_RE, text)
            \o NormalizeEach(
                 Split(Plus(Cls(WS \cup {",", ";", "|", "/", "<", ">"})), text, FALSE)
                 \o Windows(Split(WSp, text, TRUE))), {})

(* ------------------------------------------------------------------ *)
(* E-mail policy and ranking: email_allowed, pick_best_email           *)
(* ------------------------------------------------------------------ *)
GENERIC_EMAIL_USERS ==
  {<<"i","n","f","o">>, <<"c","o","n","t","a","c","t">>, <<"o","f","f","i","c","e">>,
    <<"a","d","m","i","s","s","i","o","n","s">>, <<"a","p","p","l","y">>,
    <<"e","n","q","u","i","r","y">>, <<"e","n","q","u","i","r","i","e","s">>,
    <<"i","n","q","u","i","r","i","e","s">>, <<"i","n","q","u","i","r","y">>,
    <<"p","r","e","s","s">>, <<"m","e","d","i","a">>, <<"p","r">>,
    <<"m","a","r","k","e","t","i","n","g">>, <<"o","u","t","r","e","a","c","h">>,
    <<"e","x","t","e","r","n","a","l">>,
    <<"i","n","t","e","r","n","a","t","i","o","n","a","l">>,
    <<"w","e","b","m","a","s","t","e","r">>, <<"n","o","r","e","p","l","y">>,
    <<"n","o","-","r","e","p","l","y">>, <<"a","d","m","i","n">>,
    <<"a","d","m","i","n","i","s","t","r","a","t","o","r">>, <<"r","o","o","t">>,
    <<"s","u","p","p","o","r","t">>, <<"h","e","l","p">>, <<"s","e","r","v","i","c","e">>,
    <<"s","e","r","v","i","c","e","s">>, <<"c","a","r","e","e","r">>,
    <<"c","a","r","e","e","r","s">>, <<"h","r">>, <<"j","o","b","s">>,
    <<"r","e","c","r","u","i","t">>, <<"r","e","c","r","u","i","t","m","e","n","t">>,
    <<"n","e","w","s">>, <<"e","v","e","n","t","s">>, <<"a","l","u","m","n","i">>,
    <<"o","i","c">>, <<"p","r","o","m","o","t","e">>,
    <<"p","o","s","t","m","a","s","t","e","r">>, <<"s","e","c","u","r","i","t","y">>,
    <<"a","b","u","s","e">>, <<"s","e","c","r","e","t","a","r","y">>,
    <<"o","f","f","i","c","e","-","o","f">>, <<"f","r","o","n","t","d","e","s","k">>,
    <<"s","t","u","d","e","n","t">>, <<"s","t","u","d","e","n","t","s">>,
    <<"l","i","b","r","a","r","y">>, <<"p","o","s","t","g","r","a","d">>,
    <<"u","n","d","e","r","g","r","a","d">>}
PERSONAL_FREE_DOMAINS ==
  {<<"g","m","a","i","l",".","c","o","m">>, <<"o","u","t","l","o","o","k",".","c","o","m">>,
    <<"h","o","t","m","a","i","l",".","c","o","m">>, <<"y","a","h","o","o",".","c","o","m">>,
    <<"y","a","h","o","o",".","c","o",".","u","k">>, <<"p","r","o","t","o","n",".","m","e">>,
    <<"i","c","l","o","u","d",".","c","o","m">>, <<"q","q",".","c","o","m">>,
    <<"1","6","3",".","c","o","m">>, <<"1","2","6",".","c","o","m">>,
    <<"y","e","a","h",".","n","e","t">>}

\* ACADEMIC_EMAIL_PREF =
\*   \.(edu(\.[a-z]{2})?|ac(\.[a-z]{2})?|edu\.[a-z]{2,}|ac\.[a-z]{2,}|cn|org)$  (re.I)
ACADEMIC_EMAIL_PREF ==
  CatAll(<<Ch("."),
           AltAll(<<
             Cat(WordI(<<"e","d","u">>), Opt(Cat(Ch("."), Rep(Cls(Letters), 2, 2)))),
             Cat(WordI(<<"a","c">>), Opt(Cat(Ch("."), Rep(Cls(Letters), 2, 2)))),
             CatAll(<<WordI(<<"e","d","u">>), Ch("."), Rep(Cls(Letters), 2, 2), Star(Cls(Letters))>>),
             CatAll(<<WordI(<<"a","c">>), Ch("."), Rep(Cls(Letters), 2, 2), Star(Cls(Letters))>>),
             WordI(<<"c","n">>),
             WordI(<<"o","r","g">>)>>),
           Dollar>>)

\* "@" in email
HasAt(email) == \E i \in 1..Len(email) : email[i] = "@"
\* email.split("@", 1): the parts before and after the first "@"
AtPos(email) == CHOOSE i \in 1..Len(email) : email[i] = "@" /\ \A j \in 1..(i - 1) : email[j] # "@"
LocalPart(email) == Slice(email, 1, AtPos(email) - 1)
DomainPart(email) == Slice(email, AtPos(email) + 1, Len(email))

\* name_affinity(name, local_part)
name_affinity(name, local_part) ==
  LET tokens == FindAll(Plus(Cls(Letters)), name)
      local == Lower(local_part)
  IN Cardinality({k \in 1..Len(tokens) :
        Len(tokens[k]) >= 2 /\
        (IsSubstring(Lower(tokens[k]), local) \/ IsSubstring(local, Lower(tokens[k])))})

\* is_academic_domain(domain)
is_academic_domain(domain) == Search(ACADEMIC_EMAIL_PREF, <<".">> \o Lower(domain)) # NoMatch

\* email_is_generic(local)
email_is_generic(local) ==
  LET l == Lower(local)
  IN l \in GENERIC_EMAIL_USERS
     \/ StartsWith(l, <<"n","o","-","r","e","p","l","y">>)
     \/ StartsWith(l, <<"n","o","r","e","p","l","y">>)
     \/ StartsWith(l, <<"p","o","s","t","m","a","s","t","e","r">>)

\* dl == site_regdom or dl.endswith("." + site_regdom), for a non-empty site_regdom
SameRegdom(dl, site_regdom) ==
  site_regdom # <<>> /\ (dl = site_regdom \/ EndsWith(dl, <<".">> \o site_regdom))

\* email_allowed(email, site_regdom)
email_allowedFreeLast(email, site_regdom) ==
  IF ~HasAt(email) THEN FALSE
  ELSE LET dl == Lower(DomainPart(email))
           ll == Lower(LocalPart(email))
       IN IF email_is_generic(ll) THEN FALSE
          ELSE IF SameRegdom(dl, site_regdom) THEN TRUE
          ELSE IF dl \in PERSONAL_FREE_DOMAINS THEN FALSE
          ELSE is_academic_domain(dl)
email_allowed(email, site_regdom) ==
  IF ~HasAt(email) THEN FALSE
  ELSE LET dl == Lower(DomainPart(email))
           ll == Lower(LocalPart(email))
       IN IF email_is_generic(ll) THEN FALSE
          ELSE IF dl \in PERSONAL_FREE_DOMAINS THEN FALSE
          ELSE IF SameRegdom(dl, site_regdom) THEN TRUE
          ELSE is_academic_domain(dl)

\* min(a, b)
Min(a, b) == IF a < b THEN a ELSE b
\* the ranking key of pick_best_email: (-same_domain, -academic, -aff, length_penalty)
RankKey(name, e, site_regdom) ==
  LET local == LocalPart(e)
      domain == DomainPart(e)
      same_domain == IF site_regdom # <<>>
                       THEN (IF Lower(domain) = site_regdom
                                \/ EndsWith(Lower(domain), <<".">> \o site_regdom)
                             THEN 1 ELSE 0)
                       ELSE 0
      academic == IF is_academic_domain(domain) THEN 1 ELSE 0
      aff == name_affinity(name, local)
      length_penalty == Min(Len(local), 20)
  IN <<0 - same_domain, 0 - academic, 0 - aff, length_penalty>>
\* key < best_key on tuples of four integers
KeyLessOrEqual(k, b) ==
  k = b \/ \E i \in 1..4 : k[i] < b[i] /\ \A j \in 1..(i - 1) : k[j] = b[j]
KeyLess(k, b) ==
  \E i \in 1..4 : k[i] < b[i] /\ \A j \in 1..(i - 1) : k[j] = b[j]

\* if "@" not in e: continue ... if not email_allowed(e, site_regdom): continue
NotCandidateNoPolicy(e, site_regdom) == ~HasAt(e)
NotCandidate(e, site_regdom) == ~HasAt(e) \/ ~email_allowed(e, site_regdom)

\* the loop of pick_best_email over emails[i..], carrying best and best_key
RECURSIVE PickLoop(_, _, _, _, _, _)
PickLoop(name, emails, site_regdom, i, best, best_key) ==
  IF i > Len(emails) THEN best
  ELSE LET e == emails[i]
       IN IF NotCandidate(e, site_regdom)
            THEN PickLoop(name, emails, site_regdom, i + 1, best, best_key)
          ELSE LET key == RankKey(name, e, site_regdom)
               IN IF best_key = None \/ KeyLess(key, best_key)
                    THEN PickLoop(name, emails, site_regdom, i + 1, e, key)
                    ELSE PickLoop(name, emails, site_regdom, i + 1, best, best_key)
\* pick_best_email(name, emails, site_regdom)
pick_best_email(name, emails, site_regdom) ==
  PickLoop(name, emails, site_regdom, 1, <<>>, None)

(* ------------------------------------------------------------------ *)
(* Names and roles: strip_trailing_punct, looks_like_human_name,       *)
(* page_has_teaching_role, extract_name                                *)
(* ------------------------------------------------------------------ *)
\* TRAIL_CLEAN = [,;\s and the fullwidth comma, semicolon, full stop, enumeration comma]+$
TRAIL_CLEAN ==
  Cat(Plus(Cls({"U+FF0C", ",", "U+FF1B", ";", "U+3002", "U+3001"} \cup WS)), Dollar)
\* str.strip()
RECURSIVE LStrip(_)
LStrip(s) == IF s # <<>> /\ Head(s) \in WS THEN LStrip(Tail(s)) ELSE s
RECURSIVE RStrip(_)
RStrip(s) == IF s # <<>> /\ s[Len(s)] \in WS THEN RStrip(Slice(s, 1, Len(s) - 1)) ELSE s
Strip(s) == RStrip(LStrip(s))
\* strip_trailing_punct(s)
strip_trailing_punct(s) == IF s = <<>> THEN s ELSE Sub(TRAIL_CLEAN, <<>>, Strip(s))

\* (About|Home|Team|List|Search|Hot|Institutions|Laboratories|Page) with re.I
NavWords ==
  <<<<"A","b","o","u","t">>, <<"H","o","m","e">>, <<"T","e","a","m">>, <<"L","i","s","t">>,
    <<"S","e","a","r","c","h">>, <<"H","o","t">>,
    <<"I","n","s","t","i","t","u","t","i","o","n","s">>,
    <<"L","a","b","o","r","a","t","o","r","i","e","s">>, <<"P","a","g","e">>>>
NavWordRe == AltAll([k \in DOMAIN NavWords |-> WordI(NavWords[k])])
\* @|\.com|\.edu|\.cn with re.I
AddressFragmentRe ==
  AltAll(<<Ch("@"), WordI(<<".","c","o","m">>), WordI(<<".","e","d","u">>),
           WordI(<<".","c","n">>)>>)
\* looks_like_human_name(name)
looks_like_human_name(name) ==
  IF name = <<>> THEN FALSE
  ELSE IF Search(NavWordRe, name) # NoMatch THEN FALSE
  ELSE IF Search(AddressFragmentRe, name) # NoMatch THEN FALSE
  ELSE IF Search(Cls(CJKIdeographs), name) # NoMatch THEN TRUE
  ELSE LET tokens == FindAll(Plus(Cls(Letters)), name)
       IN Len(tokens) >= 2 /\ Len(Concat(tokens)) >= 3

\* URL_ROLE_HINTS and ROLE_WORDS (the ASCII words, then the others)
URL_ROLE_HINTS ==
  {<<"p","e","o","p","l","e">>, <<"f","a","c","u","l","t","y">>, <<"s","t","a","f","f">>,
    <<"p","e","r","s","o","n">>, <<"p","r","o","f","i","l","e">>,
    <<"m","e","m","b","e","r">>, <<"t","e","a","m">>, <<"g","r","o","u","p">>,
    <<"d","i","r","e","c","t","o","r","y">>, <<"t","e","a","c","h","e","r">>,
    <<"t","e","a","c","h","e","r","s">>,
    <<"f","a","c","u","l","t","y","_","p","r","o","f","i","l","e">>}
ROLE_WORDS_ASCII ==
  {<<"p","r","o","f","e","s","s","o","r">>,
    <<"a","s","s","o","c","i","a","t","e"," ","p","r","o","f","e","s","s","o","r">>,
    <<"a","s","s","i","s","t","a","n","t"," ","p","r","o","f","e","s","s","o","r">>,
    <<"l","e","c","t","u","r","e","r">>,
    <<"s","e","n","i","o","r"," ","l","e","c","t","u","r","e","r">>,
    <<"r","e","a","d","e","r">>, <<"c","h","a","i","r">>,
    <<"c","h","a","i","r","p","e","r","s","o","n">>, <<"f","a","c","u","l","t","y">>,
    <<"t","e","a","c","h","i","n","g">>, <<"i","n","s","t","r","u","c","t","o","r">>}
ROLE_WORDS_CJK ==
  {<<"U+6559","U+6388">>, <<"U+526F","U+6559","U+6388">>,
    <<"U+52A9","U+7406","U+6559","U+6388">>, <<"U+8BB2","U+5E08">>, <<"U+5BFC","U+5E08">>,
    <<"U+6559","U+5E08">>, <<"U+6559","U+5458">>}
\* re.search(rf"\b{w}\b", low): an occurrence of w with no word character on either side
\* (every ASCII role word starts and ends with a letter)
WholeWordIn(w, low) ==
  \E i \in 1..Len(low) :
     /\ i + Len(w) - 1 <= Len(low)
     /\ Slice(low, i, i + Len(w) - 1) = w
     /\ (i = 1 \/ low[i - 1] \notin WordCh)
     /\ (i + Len(w) > Len(low) \/ low[i + Len(w)] \notin WordCh)
\* page_has_teaching_role(txt)
page_has_teaching_role(txt) ==
  LET low == Lower(txt)
  IN \/ \E h \in URL_ROLE_HINTS : IsSubstring(h, low)
     \/ \E w \in ROLE_WORDS_ASCII : WholeWordIn(w, low)
     \/ \E w \in ROLE_WORDS_CJK : IsSubstring(w, low)

(* ------------------------------------------------------------------ *)
(* Profile parsing: extract_name, parse_profile                        *)
(*                                                                     *)
(* A fetched profile page is the record of what BeautifulSoup yields   *)
(* from it: hits, the tidied texts of the NAME_HINT_SELECTORS elements *)
(* and name-labelled blocks in the order extract_name tries them;      *)
(* text, soup.get_text; school, research and phone, what               *)
(* extract_school, extract_research_area and extract_phones find;      *)
(* full, the corpus joined from the mailto links and the main text.    *)
(* ------------------------------------------------------------------ *)
\* extract_name: the first candidate of length 1..80 that looks like a human name, else ""
extract_name(soup) ==
  LET k == FirstIdx(soup.hits,
                    LAMBDA t : 1 <= Len(t) /\ Len(t) <= 80 /\ looks_like_human_name(t))
  IN IF k = 0 THEN <<>> ELSE soup.hits[k]

\* the return value "", "", "", "", ""
EmptyProfile == << <<>>, <<>>, <<>>, <<>>, <<>> >>

\* if not page_has_teaching_role(...): pass  -- computed, and the parse goes on either way
TeachingRoleGates(txt) == page_has_teaching_role(txt)
TeachingRolePasses(txt) == IF ~page_has_teaching_role(txt) THEN TRUE ELSE TRUE

\* the tail of parse_profile: "if not email: return empty", else the record
ProfileRecord(name, school, research, email, phone) ==
  IF email = <<>> THEN EmptyProfile ELSE <<name, school, research, email, phone>>

\* parse_profile once the name is extracted and tidied
ParseNamed(name, soup, site_regdom) ==
  IF ~looks_like_human_name(name) THEN EmptyProfile
  ELSE IF ~TeachingRolePasses(soup.text) THEN EmptyProfile
  ELSE ProfileRecord(name, strip_trailing_punct(soup.school),
                     strip_trailing_punct(soup.research),
                     pick_best_email(name, extract_emails(soup.full), site_regdom),
                     soup.phone)

\* parse_profile(profile_html, base_url, site_regdom) -> (name, school, research, email, phone)
parse_profile(soup, base_url, site_regdom) ==
  ParseNamed(strip_trailing_punct(extract_name(soup)), soup, site_regdom)

(* ------------------------------------------------------------------ *)
(* Pagination: find_next_page                                          *)
(*                                                                     *)
(* A fetched listing page is the record of its person links (what      *)
(* discover_profiles returns) and of its anchors in document order,    *)
(* each [rel_next, text, href]: whether it matches a[rel=next], its    *)
(* text_of, its href attribute ("" when absent).  A URL is one string. *)
(* ------------------------------------------------------------------ *)
NEXT_TEXTS ==
  {<<"U+4E0B","U+4E00","U+9875">>, <<"U+4E0B","U+9875">>, <<"U+4E0B","U+4E00","U+9801">>,
    <<"N","e","x","t">>, <<"n","e","x","t">>, <<"U+203A">>, <<"U+00BB">>, <<">">>,
    <<"U+540E","U+4E00","U+9875">>, <<"U+4E0B","U+4E00","U+4E2A">>, <<"M","o","r","e">>,
    <<"O","l","d","e","r">>}
\* the pattern of re.fullmatch in find_next_page
NextFullTexts ==
  {<<"U+4E0B","U+4E00","U+9875">>, <<"U+4E0B","U+9875">>, <<"U+4E0B","U+4E00","U+9801">>,
    <<"N","e","x","t">>, <<"U+203A","U+203A">>, <<">",">">>, <<"M","o","r","e">>}

\* None where a URL is expected
NoneURL == "None"
\* the URLs of the model: three listing pages on two sites, two profile pages
ListingF == "http://x.com/f"
ListingG == "http://x.com/g"
ListingY == "https://y.edu/f"
Profile1 == "http://x.com/p1"
Profile2 == "http://x.com/p2"
ListingURLs == {ListingF, ListingG, ListingY}
ProfileURLs == {Profile1, Profile2}
URLs == ListingURLs \cup ProfileURLs
\* a relative reference, as written in an href
RelativeF == "f"
\* urljoin(base_url, href): an absolute href is itself, the relative one names
\* the file f beside the base
urljoin(base_url, href) ==
  IF href \in URLs THEN href
  ELSE IF base_url = ListingY THEN ListingY ELSE ListingF

\* the text test of find_next_page
IsNextText(txt) == txt \in NEXT_TEXTS \/ txt \in NextFullTexts

\* find_next_page(listing_html, base_url) -> the next page's URL or None
find_next_pageGuarded(soup, base_url) ==
  LET a == FirstIdx(soup.anchors, LAMBDA x : x.rel_next)
      k == FirstIdx(soup.anchors, LAMBDA x : IsNextText(x.text) /\ x.href # "")
      found == IF a # 0 /\ soup.anchors[a].href # "" THEN urljoin(base_url, soup.anchors[a].href)
               ELSE IF k # 0 THEN urljoin(base_url, soup.anchors[k].href)
               ELSE NoneURL
  IN IF found = base_url THEN NoneURL ELSE found
find_next_page(soup, base_url) ==
  LET a == FirstIdx(soup.anchors, LAMBDA x : x.rel_next)
      k == FirstIdx(soup.anchors, LAMBDA x : IsNextText(x.text) /\ x.href # "")
  IN IF a # 0 /\ soup.anchors[a].href # "" THEN urljoin(base_url, soup.anchors[a].href)
     ELSE IF k # 0 THEN urljoin(base_url, soup.anchors[k].href)
     ELSE NoneURL

(* ------------------------------------------------------------------ *)
(* The inputs the functions are applied to                             *)
(* ------------------------------------------------------------------ *)
\* registrable domains, as registered_domain returns them
XCom == <<"x",".","c","o","m">>
YEdu == <<"y",".","e","d","u">>
GmailCom == <<"g","m","a","i","l",".","c","o","m">>
ExampleEdu == <<"e","x","a","m","p","l","e",".","e","d","u">>
ExampleCom == <<"e","x","a","m","p","l","e",".","c","o","m">>

\* local parts and domains for email_allowed
AllowLocals ==
  {<<"b","o","b">>, <<"i","n","f","o">>, <<"I","n","f","o">>,
    <<"n","o","-","r","e","p","l","y","2">>, <<"n","o","r","e","p","l","y","x">>,
    <<"p","o","s","t","m","a","s","t","e","r",".","x">>, <<"h","r","1">>, <<>>}
AllowDomains ==
  {<<"g","m","a","i","l",".","c","o","m">>, <<"G","M","A","I","L",".","C","O","M">>,
    <<"m","a","i","l",".","g","m","a","i","l",".","c","o","m">>, <<"x",".","c","o","m">>,
    <<"c","s",".","x",".","c","o","m">>, <<"a","x",".","c","o","m">>,
    <<"y",".","e","d","u">>, <<"y",".","a","c",".","u","k">>,
    <<"q",".","e","d","u",".","c">>, <<"z",".","o","r","g">>, <<"w",".","d","e">>,
    <<"e","d","u",".","x",".","c","o","m">>}
AllowEmails ==
  {l \o <<"@">> \o d : l \in AllowLocals, d \in AllowDomains}
    \cup {<<"b","o","b">>, <<"b","@","o","b","@","x",".","c","o","m">>}
AllowSites == {<<>>, XCom, YEdu, GmailCom}

\* names and candidates for pick_best_email
JohnSmith == <<"J","o","h","n"," ","S","m","i","t","h">>
InfoAtExample == <<"i","n","f","o","@","e","x","a","m","p","l","e",".","e","d","u">>
JSmithAtExample == <<"j",".","s","m","i","t","h","@","e","x","a","m","p","l","e",".","e","d","u">>
PickPool ==
  {<<"i","n","f","o","@","e","x","a","m","p","l","e",".","e","d","u">>,
    <<"j",".","s","m","i","t","h","@","e","x","a","m","p","l","e",".","e","d","u">>,
    <<"s","m","i","t","h","@","e","x","a","m","p","l","e",".","e","d","u">>,
    <<"J","o","h","n",".","S","m","i","t","h","@","c","s",".","e","x","a","m","p","l","e",".","e","d","u">>,
    <<"j","s","@","o","t","h","e","r",".","a","c",".","u","k">>,
    <<"j","s","@","e","x","a","m","p","l","e",".","c","o","m">>,
    <<"j","s","@","g","m","a","i","l",".","c","o","m">>,
    <<"a","a","a","a","a","a","a","a","a","a","a","a","a","a","a","a","a","a","a","a","a","@","e","x","a","m","p","l","e",".","e","d","u">>,
    <<"b","b","b","b","b","b","b","b","b","b","b","b","b","b","b","b","b","b","b","b","b","b","@","e","x","a","m","p","l","e",".","e","d","u">>,
    <<"n","o","b","o","d","y">>}
PickNames == {JohnSmith, <<"J","o">>}
PickSites == {ExampleEdu, ExampleCom, <<>>}
\* the longest candidate list
MaxCandidates == 2
RECURSIVE SeqsUpTo(_, _)
SeqsUpTo(S, n) ==
  IF n = 0 THEN {<<>>}
  ELSE SeqsUpTo(S, n - 1) \cup {Append(q, x) : q \in SeqsUpTo(S, n - 1), x \in S}

\* profile pages
AlLi == <<"A","l"," ","L","i">>
ALLIComma == <<"A","L"," ","L","I",",">>
ALLI == <<"A","L"," ","L","I">>
BoLi == <<"B","o"," ","L","i">>
Home == <<"H","o","m","e">>
AlAtYEdu == <<"a","l","@","y",".","e","d","u">>
BobAtXCom == <<"b","o","b","@","x",".","c","o","m">>
BoAtYEdu == <<"b","o","@","y",".","e","d","u">>
PageAl ==
  [hits |-> <<AlLi>>, text |-> <<"P","r","o","f","e","s","s","o","r"," ","A","l"," ","L","i">>, school |-> <<"C","S">>,
   research |-> <<>>, full |-> AlAtYEdu, phone |-> <<>>]
PageAL ==
  [hits |-> <<Home, ALLIComma>>, text |-> <<"A","L"," ","L","I">>, school |-> <<>>,
   research |-> <<"A","I",","," ">>, full |-> <<"i","n","f","o","@","x",".","c","o","m"," ","b","o","b","@","x",".","c","o","m">>, phone |-> <<>>]
PageBo ==
  [hits |-> <<BoLi>>, text |-> <<"B","o"," ","L","i">>, school |-> <<>>,
   research |-> <<>>, full |-> <<"b","o"," ","[","a","t","]"," ","y",".","e","d","u">>, phone |-> <<"+","1"," ","5","5","5"," ","0","1","0","0">>]
PageNoName ==
  [hits |-> <<Home>>, text |-> <<"H","o","m","e">>, school |-> <<>>,
   research |-> <<>>, full |-> AlAtYEdu, phone |-> <<>>]
PageFreeMail ==
  [hits |-> <<BoLi>>, text |-> <<"L","e","c","t","u","r","e","r"," ","B","o"," ","L","i">>, school |-> <<>>,
   research |-> <<>>, full |-> <<"b","o","@","g","m","a","i","l",".","c","o","m">>, phone |-> <<>>]
ProfilePages == {PageAl, PageAL, PageBo, PageNoName, PageFreeMail}
NoProfile == [hits |-> <<>>, text |-> <<>>, school |-> <<>>, research |-> <<>>,
              full |-> <<>>, phone |-> <<>>]
Regdoms == {XCom, YEdu, <<>>}

\* the anchors of listing pages
Anchor(rel, txt, href) == [rel_next |-> rel, text |-> txt, href |-> href]
AnchorsNone == <<>>
AnchorsRelG == <<Anchor(TRUE, <<"2">>, ListingG)>>
AnchorsNextF == <<Anchor(FALSE, <<"H","o","m","e">>, ListingG),
                  Anchor(FALSE, <<"N","e","x","t">>, RelativeF)>>
AnchorsRelEmpty == <<Anchor(TRUE, <<"2">>, ""), Anchor(FALSE, <<"M","o","r","e">>, ""),
                     Anchor(FALSE, <<">",">">>, ListingY)>>
AnchorsNoHref == <<Anchor(FALSE, <<"O","l","d","e","r">>, "")>>
AnchorPool == {AnchorsNone, AnchorsRelG, AnchorsNextF, AnchorsRelEmpty, AnchorsNoHref}
NoListing == [links |-> <<>>, anchors |-> <<>>]

\* texts for normalize_email and extract_emails: a local part, a separator, a domain
DeobLocals ==
  {<<"j","o","h","n",".","s","m","i","t","h">>, <<"k","a","t","e">>, <<"b","o","b">>,
    <<"p","a","t">>}
DeobDomains ==
  {<<"c","s",".","e","x","a","m","p","l","e",".","e","d","u">>,
    <<"e","x","a","m","p","l","e",".","e","d","u">>, <<"d","a","t","a",".","e","d","u">>}
BracketAt == <<" ","[","a","t","]"," ">>
DeobSeparators ==
  {BracketAt, <<"@">>, <<" ","(","a","t",")"," ">>, <<" ","a","t"," ">>,
    <<"(","r","e","m","o","v","e",")","@">>}
KaRemoveTe ==
  <<"k","a","(","r","e","m","o","v","e",")","t","e","@","e","x","a","m","p","l","e",".","e","d","u">>

\* one application of a function: its name and arguments
NoCall == [fn |-> "none", email |-> <<>>, site |-> <<>>, name |-> <<>>, emails |-> <<>>,
           profile |-> NoProfile, listing |-> NoListing, base_url |-> NoneURL,
           text |-> <<>>, local |-> <<>>, domain |-> <<>>]
FnCalls ==
  {[NoCall EXCEPT !.fn = "email_allowed", !.email = e, !.site = d] :
      e \in AllowEmails, d \in AllowSites}
  \cup {[NoCall EXCEPT !.fn = "pick_best_email", !.name = n, !.emails = es, !.site = d] :
      n \in PickNames, es \in SeqsUpTo(PickPool, MaxCandidates), d \in PickSites}
  \cup {[NoCall EXCEPT !.fn = "parse_profile", !.profile = pg, !.site = d,
                       !.base_url = Profile1] : pg \in ProfilePages, d \in Regdoms}
  \cup {[NoCall EXCEPT !.fn = "find_next_page", !.listing = [links |-> <<>>, anchors |-> a],
                       !.base_url = u] : a \in AnchorPool, u \in ListingURLs}
DeobCalls ==
  {[NoCall EXCEPT !.fn = f, !.text = l \o sep \o d, !.local = l, !.domain = d] :
      f \in {"normalize_email", "extract_emails"},
      l \in DeobLocals, sep \in DeobSeparators, d \in DeobDomains}
  \cup {[NoCall EXCEPT !.fn = "normalize_email", !.text = t] : t \in {KaRemoveTe, <<>>, <<"x">>}}

(* ------------------------------------------------------------------ *)
(* The crawl of one job: start, runner, scrape_sites, process_site     *)
(*                                                                     *)
(* The job's inputs are a list of sites, max_profiles and the set of   *)
(* URLs robots.txt disallows.  What a fetch returns is chosen when the *)
(* fetch happens.  translate_en is false and university_label empty.   *)
(* ------------------------------------------------------------------ *)
\* max_profiles = None
NoLimit == -1
\* the longest site list and the largest max_profiles
MaxSites == 2
MaxLimit == 2
MAX_PAGINATION_PAGES == 20

\* the entries of the site list: one padded with spaces, one without a scheme,
\* and one that is a JSON number, which has no strip()
PaddedF == " http://x.com/f "
BadSite == "x.com/f"
NumberEntry == "7"
SitePool == {PaddedF, ListingY, BadSite, NumberEntry}
LimitPool == {NoLimit} \cup 0..MaxLimit
DisallowPool == {{}, {ListingG, Profile2}, {ListingF}}
\* site.strip() raises AttributeError for an entry that is no string
StripRaises(site) == site = NumberEntry
\* site.strip()
StripSite(site) == IF site = PaddedF THEN ListingF ELSE site
\* site.lower().startswith(("http://", "https://"))
IsHttp(site) == site \in URLs
\* registered_domain(url), infer_university_from_url(url)
registered_domain(url) ==
  IF url = ListingY THEN YEdu ELSE IF url \in URLs THEN XCom ELSE <<>>
infer_university_from_url(url) ==
  IF url = ListingY THEN <<"Y"," ","U","n","i","v","e","r","s","i","t","y">>
  ELSE <<"X"," ","U","n","i","v","e","r","s","i","t","y">>

\* what the listing and profile fetches of the crawl can return
Link1 == [name |-> AlLi, profile_url |-> Profile1]
Link2 == [name |-> BoLi, profile_url |-> Profile2]
LinkLists == {<<>>, <<Link1, Link2>>}
CrawlAnchors == {AnchorsNone, AnchorsRelG, AnchorsNextF}
ListingPages == {[links |-> l, anchors |-> a] : l \in LinkLists, a \in CrawlAnchors}
CrawlProfiles == {PageAl, PageAL, PageFreeMail}

\* a progress message: its text, the URL and the number it names
Message(text, url, n) == [text |-> text, url |-> url, n |-> n]
NoMessage == Message("", NoneURL, 0)
\* JOBS[job_id] before /start has made it
NoJob == [done |-> FALSE, visited |-> 0, limit |-> NoLimit, rows |-> <<>>,
          message |-> NoMessage]
\* JOBS[job_id] as /start makes it
NewJob(mp) == [done |-> FALSE, visited |-> 0, limit |-> mp, rows |-> <<>>,
               message |-> NoMessage]
\* progress["done"] = True
MarkDoneNot(p) == p
MarkDone(p) == [p EXCEPT !.done = TRUE]
\* progress["message"] = f"Error: {e}"
ErrorMessageKept(p) == p
ErrorMessage(p) == [p EXCEPT !.message = Message("Error: ", NoneURL, 0)]
\* what a step asked of the client: nothing, a fetch, or a robots refusal
NoEvent == [kind |-> "none", url |-> NoneURL]
Fetched(url) == [kind |-> "fetch", url |-> url]
Refused(url) == [kind |-> "refused", url |-> url]

\* HttpClient.allowed_by_robots(url): can_fetch of the cached robots.txt
allowed_by_robotsFailOpen(url, robots) == TRUE
allowed_by_robots(url, robots) == url \notin robots
\* HttpClient.fetch(url): None when robots disallow, else a page or None
fetch(url, robots, pages, none) ==
  IF ~allowed_by_robots(url, robots) THEN {none} ELSE pages \cup {none}

\* parse_profile over the pages and sites of the crawl; it does not read base_url
ParsedProfiles ==
  {<<ph, d, parse_profile(ph, NoneURL, d)>> : ph \in CrawlProfiles, d \in {XCom, YEdu}}
ParsedProfile(ph, site_regdom) ==
  (CHOOSE t \in ParsedProfiles : t[1] = ph /\ t[2] = site_regdom)[3]

\* max_profiles is not None and n >= max_profiles
CapReached(n, max_profiles) == max_profiles # NoLimit /\ n >= max_profiles
\* not (next_url and pages < MAX_PAGINATION_PAGES)
LoopEndsLate(next_url, pages) == next_url = NoneURL \/ pages >= MAX_PAGINATION_PAGES + 1
LoopEnds(next_url, pages) == next_url = NoneURL \/ pages >= MAX_PAGINATION_PAGES
\* not nxt or nxt == next_url
PaginationStopsOnNone(nxt, next_url) == nxt = NoneURL
PaginationStops(nxt, next_url) == nxt = NoneURL \/ nxt = next_url

\* the record process_site appends for link p, parsed as rec at prof_url
ResultOf(rec, p, prof_url) ==
  [name |-> IF rec[1] # <<>> THEN rec[1] ELSE p.name, school |-> rec[2],
   research_area |-> rec[3], email |-> rec[4], phone |-> rec[5], profile_url |-> prof_url]
\* the row scrape_sites appends for record r of site; source_site is bookkeeping,
\* the site the record was crawled from, which the program's row does not carry
SiteRow(r, site) ==
  [university |-> infer_university_from_url(site), school |-> r.school, name |-> r.name,
   email |-> r.email, phone |-> r.phone, research_area |-> r.research_area,
   profile_url |-> r.profile_url, source_site |-> site]
\* for r in site_rows: rows.append(...); stop once the cap is reached
Grow(rows, r, site) == Append(rows, SiteRow(r, site))
RECURSIVE AppendRows(_, _, _, _)
AppendRows(rows, site_rows, site, max_profiles) ==
  IF site_rows = <<>> THEN rows
  ELSE IF CapReached(Len(rows) + 1, max_profiles) THEN Grow(rows, Head(site_rows), site)
  ELSE AppendRows(Grow(rows, Head(site_rows), site), Tail(site_rows), site, max_profiles)

\* key = (p["name"].lower(), p["profile_url"])
DedupKeyExact(p) == <<p.name, p.profile_url>>
DedupKey(p) == <<Lower(p.name), p.profile_url>>
\* the dedup loop of scrape_sites
RECURSIVE DedupLoop(_, _)
DedupLoop(rows, seen) ==
  IF rows = <<>> THEN <<>>
  ELSE IF DedupKey(Head(rows)) \in seen THEN DedupLoop(Tail(rows), seen)
  ELSE <<Head(rows)>> \o DedupLoop(Tail(rows), seen \cup {DedupKey(Head(rows))})
\* [r for r in rows if r.get("email")]
RECURSIVE WithEmail(_)
WithEmail(rows) ==
  IF rows = <<>> THEN <<>>
  ELSE (IF Head(rows).email # <<>> THEN <<Head(rows)>> ELSE <<>>) \o WithEmail(Tail(rows))

\* GET /status/<job_id> and GET /results/<job_id> for the job's entry st; the
\* page asks for no job id but the one /start returned
status(st) ==
  [code |-> 200, done |-> st.done, visited |-> st.visited, limit |-> st.limit,
   message |-> st.message]
Clean(r) ==
  [university |-> r.university, school |-> r.school, name |-> r.name, email |-> r.email,
   phone |-> r.phone, research_area |-> r.research_area]
CleanRows(rows) == [i \in DOMAIN rows |-> Clean(rows[i])]
job_results(st) == [code |-> 200, rows |-> CleanRows(st.rows)]
\* no request answered yet
NoStatus == [code |-> 0, done |-> FALSE, visited |-> 0, limit |-> NoLimit, message |-> NoMessage]
NoResults == [code |-> 0, rows |-> <<>>]

\* the jobs whose termination and whose polling are checked
Job(ss, mp, rb) == [sites |-> ss, max_profiles |-> mp, disallowed |-> rb]
LiveJobs ==
  {Job(ss, mp, rb) : ss \in SeqsUpTo(SitePool, 1) \cup {<<ListingY, NumberEntry>>},
                     mp \in LimitPool, rb \in DisallowPool}
PollJobs ==
  {Job(ss, NoLimit, {ListingG, Profile2}) : ss \in {<<PaddedF>>, <<PaddedF, NumberEntry>>}}

VARIABLES call, ret, ret2, fpc,
          sites, max_profiles, disallowed, progress, pc, site_idx, rows, dedup,
          site_url, results, visited, pages, next_url, html, di, nxt, loaded, event,
          done_writes, status_resp, results_resp
fnVars == <<call, ret, ret2, fpc>>
jobVars == <<sites, max_profiles, disallowed>>
scrapeVars == <<site_idx, rows, dedup>>
siteVars == <<site_url, results, visited, pages, next_url, html, di, nxt, loaded>>
pollVars == <<status_resp, results_resp>>
crawlVars == <<jobVars, progress, pc, scrapeVars, siteVars, event, done_writes, pollVars>>
vars == <<fnVars, crawlVars>>

\* no function is being applied; no job exists
FnIdle == call = NoCall /\ ret = None /\ ret2 = None /\ fpc = "idle"
CrawlIdle ==
  /\ sites = <<>> /\ max_profiles = NoLimit /\ disallowed = {}
  /\ progress = NoJob /\ pc = "idle"
  /\ site_idx = 1 /\ rows = <<>> /\ dedup = <<>>
  /\ site_url = NoneURL /\ results = <<>> /\ visited = {} /\ pages = 0
  /\ next_url = NoneURL /\ html = NoListing /\ di = 1 /\ nxt = NoneURL
  /\ loaded = <<>> /\ event = NoEvent
  /\ done_writes = 0 /\ status_resp = NoStatus /\ results_resp = NoResults

(* ------------------------------------------------------------------ *)
(* The functions applied to drawn inputs                               *)
(* ------------------------------------------------------------------ *)
InitFn == call \in FnCalls /\ ret = None /\ ret2 = None /\ fpc = "call" /\ CrawlIdle

Return(v) == ret' = v /\ fpc' = "returned" /\ UNCHANGED <<call, ret2, crawlVars>>

CallEmailAllowed ==
  /\ fpc = "call" /\ call.fn = "email_allowed"
  /\ Return(email_allowed(call.email, call.site))
CallPickBestEmail ==
  /\ fpc = "call" /\ call.fn = "pick_best_email"
  /\ Return(pick_best_email(call.name, call.emails, call.site))
CallParseProfile ==
  /\ fpc = "call" /\ call.fn = "parse_profile"
  /\ Return(parse_profile(call.profile, call.base_url, call.site))
CallFindNextPage ==
  /\ fpc = "call" /\ call.fn = "find_next_page"
  /\ Return(find_next_page(call.listing, call.base_url))

NextFn == CallEmailAllowed \/ CallPickBestEmail \/ CallParseProfile \/ CallFindNextPage
SpecFn == InitFn /\ [][NextFn]_vars

(* ------------------------------------------------------------------ *)
(* De-obfuscation applied to drawn texts, and applied again to its     *)
(* own result                                                          *)
(* ------------------------------------------------------------------ *)
InitDeob == call \in DeobCalls /\ ret = None /\ ret2 = None /\ fpc = "call" /\ CrawlIdle

CallNormalizeEmail ==
  /\ fpc = "call" /\ call.fn = "normalize_email"
  /\ Return(normalize_email(call.text))
\* normalize_email(normalize_email(text)); "not text" holds of None as of ""
CallNormalizeAgain ==
  /\ fpc = "returned" /\ call.fn = "normalize_email"
  /\ ret2' = normalize_email(IF ret = None THEN <<>> ELSE ret)
  /\ fpc' = "again"
  /\ UNCHANGED <<call, ret, crawlVars>>
CallExtractEmails ==
  /\ fpc = "call" /\ call.fn = "extract_emails"
  /\ Return(extract_emails(call.text))

NextDeob == CallNormalizeEmail \/ CallNormalizeAgain \/ CallExtractEmails
SpecDeob == InitDeob /\ [][NextDeob]_vars

(* ------------------------------------------------------------------ *)
(* The job                                                             *)
(* ------------------------------------------------------------------ *)
Init == FnIdle /\ CrawlIdle

SetMessage(text, url, n) == progress' = [progress EXCEPT !.message = Message(text, url, n)]

\* POST /start: the job's entry in JOBS, and the worker thread
Start ==
  /\ pc = "idle"
  /\ \E ss \in SeqsUpTo(SitePool, MaxSites), mp \in LimitPool, rb \in DisallowPool :
       /\ sites' = ss /\ max_profiles' = mp /\ disallowed' = rb
       /\ progress' = NewJob(mp)
  /\ pc' = "runner"
  /\ UNCHANGED <<fnVars, pollVars, done_writes, scrapeVars, siteVars, event>>

\* runner up to the for loop of scrape_sites
RunnerBegin ==
  /\ pc = "runner"
  /\ SetMessage("Starting scrape...", NoneURL, 0)
  /\ rows' = <<>> /\ site_idx' = 1 /\ dedup' = <<>>
  /\ pc' = "sites"
  /\ UNCHANGED <<fnVars, pollVars, done_writes, jobVars, siteVars, event>>

\* for site in sites: site.strip() raises for what is no string; skip what is
\* no http(s) URL, else enter process_site
NextSite ==
  /\ pc = "sites"
  /\ IF site_idx > Len(sites)
       THEN pc' = "dedup" /\ UNCHANGED <<site_idx, siteVars>>
     ELSE IF StripRaises(sites[site_idx])
       THEN pc' = "raised" /\ UNCHANGED <<site_idx, siteVars>>
     ELSE IF ~IsHttp(StripSite(sites[site_idx]))
       THEN site_idx' = site_idx + 1 /\ UNCHANGED <<pc, siteVars>>
     ELSE /\ site_url' = StripSite(sites[site_idx])
          /\ results' = <<>> /\ visited' = {} /\ pages' = 0
          /\ next_url' = StripSite(sites[site_idx])
          /\ html' = NoListing /\ di' = 1 /\ nxt' = NoneURL
          /\ loaded' = <<>>
          /\ pc' = "listing"
          /\ UNCHANGED site_idx
  /\ event' = NoEvent
  /\ UNCHANGED <<fnVars, pollVars, done_writes, jobVars, progress, rows, dedup>>

\* the head of the while loop: the robots check, the listing fetch, discover_profiles
ListingLoaded(page) ==
  IF page = NoListing
    THEN /\ SetMessage("Failed to load listing: ", next_url, 0)
         /\ pc' = "site_return"
         /\ UNCHANGED <<html, di, loaded>>
    ELSE /\ html' = page /\ di' = 1
         /\ loaded' = Append(loaded, next_url)
         /\ SetMessage("Found n profile links on ", next_url, Len(page.links))
         /\ pc' = "profiles"
ListingStep ==
  /\ pc = "listing"
  /\ IF LoopEnds(next_url, pages)
       THEN /\ pc' = "site_return" /\ event' = NoEvent
            /\ UNCHANGED <<progress, html, di, loaded>>
     ELSE IF ~allowed_by_robots(next_url, disallowed)
       THEN /\ SetMessage("Blocked by robots.txt: ", next_url, 0)
            /\ event' = Refused(next_url)
            /\ pc' = "site_return"
            /\ UNCHANGED <<html, di, loaded>>
     ELSE \E page \in fetch(next_url, disallowed, ListingPages, NoListing) :
            /\ event' = Fetched(next_url)
            /\ ListingLoaded(page)
  /\ UNCHANGED <<fnVars, pollVars, done_writes, jobVars, scrapeVars, site_url, results,
                 visited, pages, next_url, nxt>>

\* one pass of "for p in discovered"
Accepted(grown, prof_url) ==
  /\ results' = grown
  /\ IF CapReached(Len(grown), max_profiles)
       THEN /\ progress' = [progress EXCEPT !.visited = @ + 1,
                              !.message = Message("Reached max profiles", NoneURL, 0)]
            /\ pc' = "site_return" /\ UNCHANGED di
       ELSE /\ progress' = [progress EXCEPT !.visited = @ + 1,
                              !.message = Message("Opening profile: ", prof_url, 0)]
            /\ di' = di + 1 /\ UNCHANGED pc
Parsed(rec, p, prof_url) ==
  IF rec[4] = <<>>
    THEN /\ SetMessage("Skipped (no staff email): ", prof_url, 0)
         /\ di' = di + 1 /\ UNCHANGED <<pc, results>>
    ELSE Accepted(Append(results, ResultOf(rec, p, prof_url)), prof_url)
OpenedAborts(ph, p, prof_url) ==
  IF ph = NoProfile
    THEN /\ SetMessage("Failed to open profile: ", prof_url, 0)
         /\ pc' = "site_return" /\ UNCHANGED <<di, results>>
    ELSE Parsed(ParsedProfile(ph, registered_domain(site_url)), p, prof_url)
Opened(ph, p, prof_url) ==
  IF ph = NoProfile
    THEN /\ SetMessage("Failed to open profile: ", prof_url, 0)
         /\ di' = di + 1 /\ UNCHANGED <<pc, results>>
    ELSE Parsed(ParsedProfile(ph, registered_domain(site_url)), p, prof_url)
Visit(p, prof_url) ==
  IF CapReached(Len(results), max_profiles)
    THEN /\ SetMessage("Reached max profiles", NoneURL, 0)
         /\ pc' = "site_return" /\ event' = NoEvent
         /\ UNCHANGED <<results, visited, di>>
  ELSE IF prof_url \in visited
    THEN /\ di' = di + 1 /\ event' = NoEvent
         /\ UNCHANGED <<progress, pc, results, visited>>
  ELSE IF ~allowed_by_robots(prof_url, disallowed)
    THEN /\ visited' = visited \cup {prof_url}
         /\ SetMessage("Robots blocked profile: ", prof_url, 0)
         /\ event' = Refused(prof_url)
         /\ di' = di + 1 /\ UNCHANGED <<pc, results>>
  ELSE \E ph \in fetch(prof_url, disallowed, CrawlProfiles, NoProfile) :
         /\ visited' = visited \cup {prof_url}
         /\ event' = Fetched(prof_url)
         /\ Opened(ph, p, prof_url)
ProfileStep ==
  /\ pc = "profiles" /\ di <= Len(html.links)
  /\ Visit(html.links[di],
           IF html.links[di].profile_url # "" THEN html.links[di].profile_url ELSE next_url)
  /\ UNCHANGED <<fnVars, pollVars, done_writes, jobVars, scrapeVars, site_url, pages,
                 next_url, html, nxt, loaded>>

\* after the for loop: find_next_page, and the end or the next turn of the while loop
Follow(found) ==
  /\ nxt' = found
  /\ IF PaginationStops(found, next_url)
       THEN /\ SetMessage("No further pages.", NoneURL, 0)
            /\ pc' = "site_return"
            /\ UNCHANGED <<pages, next_url>>
       ELSE /\ pages' = pages + 1
            /\ next_url' = found
            /\ SetMessage("Following pagination (page n)", NoneURL, pages + 2)
            /\ pc' = "listing"
Paginate ==
  /\ pc = "profiles" /\ di > Len(html.links)
  /\ Follow(find_next_page(html, next_url))
  /\ event' = NoEvent
  /\ UNCHANGED <<fnVars, pollVars, done_writes, jobVars, scrapeVars, site_url, results,
                 visited, html, di, loaded>>

\* process_site returned: its rows join rows, up to the global cap
JoinedNoBreak(grown) ==
  /\ rows' = grown
  /\ UNCHANGED progress
  /\ pc' = "sites" /\ site_idx' = site_idx + 1
Joined(grown) ==
  /\ rows' = grown
  /\ progress' = IF results # <<>> /\ CapReached(Len(grown), max_profiles)
                   THEN [progress EXCEPT !.message = Message("Reached global max", NoneURL, 0)]
                   ELSE progress
  /\ IF CapReached(Len(grown), max_profiles)
       THEN pc' = "dedup" /\ UNCHANGED site_idx
       ELSE pc' = "sites" /\ site_idx' = site_idx + 1
SiteReturn ==
  /\ pc = "site_return"
  /\ Joined(AppendRows(rows, results, site_url, max_profiles))
  /\ event' = NoEvent
  /\ UNCHANGED <<fnVars, pollVars, done_writes, jobVars, dedup, siteVars>>

\* the end of scrape_sites: client.close(), the dedup loop, progress["done"] = True
Dedup ==
  /\ pc = "dedup"
  /\ dedup' = DedupLoop(rows, {})
  /\ progress' = MarkDone(progress)
  /\ done_writes' = done_writes + 1
  /\ pc' = "publish_rows"
  /\ UNCHANGED <<fnVars, pollVars, jobVars, site_idx, rows, siteVars, event>>

\* the four assignments that end runner
RunnerRows ==
  /\ pc = "publish_rows"
  /\ progress' = [progress EXCEPT !.rows = WithEmail(dedup)]
  /\ pc' = "publish_visited"
  /\ UNCHANGED <<fnVars, pollVars, done_writes, jobVars, scrapeVars, siteVars, event>>
RunnerVisited ==
  /\ pc = "publish_visited"
  /\ progress' = [progress EXCEPT !.visited = Len(progress.rows)]
  /\ pc' = "publish_done"
  /\ UNCHANGED <<fnVars, pollVars, done_writes, jobVars, scrapeVars, siteVars, event>>
RunnerDone ==
  /\ pc = "publish_done"
  /\ progress' = MarkDone(progress)
  /\ done_writes' = done_writes + 1
  /\ pc' = "publish_message"
  /\ UNCHANGED <<fnVars, pollVars, jobVars, scrapeVars, siteVars, event>>
RunnerMessage ==
  /\ pc = "publish_message"
  /\ progress' = IF progress.message.text # "" THEN progress
                 ELSE [progress EXCEPT !.message = Message("Complete", NoneURL, 0)]
  /\ pc' = "finished"
  /\ UNCHANGED <<fnVars, pollVars, done_writes, jobVars, scrapeVars, siteVars, event>>

\* the except branch of runner: the exception left scrape_sites through its
\* finally, which closes the client
RunnerExceptDone ==
  /\ pc = "raised"
  /\ progress' = MarkDone(progress)
  /\ done_writes' = done_writes + 1
  /\ pc' = "except_message"
  /\ UNCHANGED <<fnVars, pollVars, jobVars, scrapeVars, siteVars, event>>
RunnerExceptMessage ==
  /\ pc = "except_message"
  /\ progress' = ErrorMessage(progress)
  /\ pc' = "failed"
  /\ UNCHANGED <<fnVars, pollVars, done_writes, jobVars, scrapeVars, siteVars, event>>

\* the worker thread of the job
Worker ==
  \/ RunnerBegin \/ NextSite \/ ListingStep \/ ProfileStep \/ Paginate
  \/ SiteReturn \/ Dedup \/ RunnerRows \/ RunnerVisited \/ RunnerDone \/ RunnerMessage
  \/ RunnerExceptDone \/ RunnerExceptMessage

Next == Start \/ Worker
Spec == Init /\ [][Next]_vars

(* ------------------------------------------------------------------ *)
(* A started job whose worker thread is scheduled again and again      *)
(* ------------------------------------------------------------------ *)
InitStarted(jobs) ==
  /\ FnIdle
  /\ \E j \in jobs :
       /\ sites = j.sites /\ max_profiles = j.max_profiles /\ disallowed = j.disallowed
       /\ progress = NewJob(j.max_profiles)
  /\ pc = "runner"
  /\ site_idx = 1 /\ rows = <<>> /\ dedup = <<>>
  /\ site_url = NoneURL /\ results = <<>> /\ visited = {} /\ pages = 0
  /\ next_url = NoneURL /\ html = NoListing /\ di = 1 /\ nxt = NoneURL
  /\ loaded = <<>> /\ event = NoEvent
  /\ done_writes = 0 /\ status_resp = NoStatus /\ results_resp = NoResults

InitLive == InitStarted(LiveJobs)
SpecLive == InitLive /\ [][Worker]_vars /\ WF_vars(Worker)

(* ------------------------------------------------------------------ *)
(* A started job and the page that polls it: GET /status until it      *)
(* reports done, then GET /results                                     *)
(* ------------------------------------------------------------------ *)
Status ==
  /\ pc # "idle" /\ ~status_resp.done
  /\ status_resp' = status(progress)
  /\ UNCHANGED <<fnVars, jobVars, progress, pc, scrapeVars, siteVars, event, done_writes,
                 results_resp>>
Results ==
  /\ status_resp.done /\ results_resp = NoResults
  /\ results_resp' = job_results(progress)
  /\ UNCHANGED <<fnVars, jobVars, progress, pc, scrapeVars, siteVars, event, done_writes,
                 status_resp>>

InitPoll == InitStarted(PollJobs)
NextPoll == Worker \/ Status \/ Results
SpecPoll == InitPoll /\ [][NextPoll]_vars

(* ------------------------------------------------------------------ *)
(* Properties                                                          *)
(* ------------------------------------------------------------------ *)
\* the states after scrape_sites has returned
Returned == pc \in {"publish_rows", "publish_visited", "publish_done", "publish_message",
                    "finished"}

\* a row's email is non-empty and allowed for the site the row was crawled from
RowEmailAllowed(r) ==
  r.email # <<>> /\ email_allowed(r.email, registered_domain(r.source_site))

\* C1: every record scrape_sites returns, and every record of the job's rows,
\* has a non-empty email that email_allowed accepts for the registrable domain
\* of the site it was crawled from.
C1_ReturnedEmailsAllowed ==
  /\ Returned => \A i \in DOMAIN dedup : RowEmailAllowed(dedup[i])
  /\ \A i \in DOMAIN progress.rows : RowEmailAllowed(progress.rows[i])
\* a finished job whose rows come from two sites of different registrable domains
C1_RowsFromTwoSites ==
  /\ pc = "finished"
  /\ \E i, j \in DOMAIN progress.rows :
       registered_domain(progress.rows[i].source_site)
         # registered_domain(progress.rows[j].source_site)

\* the key of the claim, and the indices of the first records of each key
KeyOf(r) == <<Lower(r.name), r.profile_url>>
FirstOfKey(rs) == {i \in DOMAIN rs : \A j \in 1..(i - 1) : KeyOf(rs[j]) # KeyOf(rs[i])}

\* C2: the list scrape_sites returns has no two records with the same
\* (name.lower(), profile_url); it consists of the first accumulated record of
\* each key, in accumulation order.
C2_DedupKeepsFirstInOrder ==
  Returned =>
    /\ \A i, j \in DOMAIN dedup : i # j => KeyOf(dedup[i]) # KeyOf(dedup[j])
    /\ Len(dedup) = Cardinality(FirstOfKey(rows))
    /\ \A k \in DOMAIN dedup :
         \E i \in FirstOfKey(rows) :
           dedup[k] = rows[i] /\ Cardinality({j \in FirstOfKey(rows) : j < i}) = k - 1
\* a job that accumulated two records of one key whose names differ in case,
\* and returned two records
C2_DuplicateDropped ==
  /\ pc = "finished" /\ Len(dedup) >= 2 /\ Len(dedup) < Len(rows)
  /\ \E i, j \in DOMAIN rows :
       i < j /\ KeyOf(rows[i]) = KeyOf(rows[j]) /\ rows[i].name # rows[j].name

\* texts with and without a teaching-role word
RoleTexts == {<<"P","r","o","f","e","s","s","o","r">>, <<"n","o","n","e">>}

\* C3: parse_profile returns five empty strings or a tuple with a non-empty
\* name and email; it accepts exactly when the extracted name passes
\* looks_like_human_name and pick_best_email returns an address; the page's
\* text, with or without a teaching role, does not change the result.
C3_ParseProfileGate ==
  (fpc = "returned" /\ call.fn = "parse_profile") =>
    /\ ret = EmptyProfile \/ (ret[1] # <<>> /\ ret[4] # <<>>)
    /\ (ret # EmptyProfile) <=>
         /\ looks_like_human_name(strip_trailing_punct(extract_name(call.profile)))
         /\ pick_best_email(strip_trailing_punct(extract_name(call.profile)),
                            extract_emails(call.profile.full), call.site) # <<>>
    /\ \A t \in RoleTexts :
         parse_profile([call.profile EXCEPT !.text = t], call.base_url, call.site) = ret
\* a page without a teaching role that parse_profile accepts
C3_AcceptedWithoutRole ==
  /\ fpc = "returned" /\ call.fn = "parse_profile"
  /\ ret # EmptyProfile
  /\ ~page_has_teaching_role(call.profile.text)

\* the policy of the claim, stated on the lower-cased local part l and domain d
GenericLocal(l) ==
  \/ l \in GENERIC_EMAIL_USERS
  \/ \E q \in {<<"n","o","-","r","e","p","l","y">>, <<"n","o","r","e","p","l","y">>,
               <<"p","o","s","t","m","a","s","t","e","r">>} :
       Len(l) >= Len(q) /\ SubSeq(l, 1, Len(q)) = q
SiteDomain(d, site) ==
  site # <<>> /\ (d = site \/ (Len(d) > Len(site) /\
                               SubSeq(d, Len(d) - Len(site), Len(d)) = <<".">> \o site))
\* .edu, .ac, .cn, .org, or .edu.xx and .ac.xx with two or more letters xx
AcademicSuffix(d) ==
  \/ \E q \in {<<".","e","d","u">>, <<".","a","c">>, <<".","c","n">>, <<".","o","r","g">>} :
       EndsWith(<<".">> \o d, q)
  \/ \E k \in 2..Len(d) :
       /\ \A i \in (Len(d) - k + 1)..Len(d) : d[i] \in Letters
       /\ \/ EndsWith(<<".">> \o SubSeq(d, 1, Len(d) - k), <<".","e","d","u",".">>)
          \/ EndsWith(<<".">> \o SubSeq(d, 1, Len(d) - k), <<".","a","c",".">>)
Policy(l, d, site) ==
  /\ ~GenericLocal(l)
  /\ d \notin PERSONAL_FREE_DOMAINS
  /\ SiteDomain(d, site) \/ AcademicSuffix(d)

\* C4: email_allowed is true exactly when the local part is no generic mailbox,
\* the domain is no free-mail provider, and the domain is the site's domain, a
\* subdomain of it, or ends with an academic suffix; an address at a free-mail
\* domain is rejected for every site, that domain itself included.
C4_EmailAllowedPolicy ==
  (fpc = "returned" /\ call.fn = "email_allowed") =>
    IF ~HasAt(call.email) THEN ret = FALSE
    ELSE /\ ret = Policy(Lower(LocalPart(call.email)), Lower(DomainPart(call.email)),
                         call.site)
         /\ Lower(DomainPart(call.email)) \in PERSONAL_FREE_DOMAINS => ret = FALSE
\* a personal mailbox at gmail.com, rejected for the site gmail.com
C4_FreeMailAtItsOwnSite ==
  /\ fpc = "returned" /\ call.fn = "email_allowed"
  /\ call.site = GmailCom
  /\ HasAt(call.email)
  /\ Lower(DomainPart(call.email)) = GmailCom
  /\ ~GenericLocal(Lower(LocalPart(call.email)))
  /\ ret = FALSE

\* the preferences of the claim for a candidate e: same site domain, academic
\* suffix, name affinity, and the local part's length capped at 20
Pref(name, e, site) ==
  [same |-> SiteDomain(Lower(DomainPart(e)), site),
   academic |-> is_academic_domain(DomainPart(e)),
   affinity |-> name_affinity(name, LocalPart(e)),
   length |-> IF Len(LocalPart(e)) < 20 THEN Len(LocalPart(e)) ELSE 20]
\* a is strictly preferred to b
Preferred(a, b) ==
  \/ a.same /\ ~b.same
  \/ a.same = b.same /\ a.academic /\ ~b.academic
  \/ a.same = b.same /\ a.academic = b.academic /\ a.affinity > b.affinity
  \/ a.same = b.same /\ a.academic = b.academic /\ a.affinity = b.affinity
       /\ a.length < b.length

\* C5: pick_best_email returns "" when no candidate passes email_allowed; else
\* it returns an allowed candidate to which no allowed candidate is preferred,
\* the earliest in the list among those equally preferred.  For John Smith,
\* [info@example.edu, j.smith@example.edu] and example.edu it returns
\* j.smith@example.edu.
C5_PickBestEmailMinimalKey ==
  (fpc = "returned" /\ call.fn = "pick_best_email") =>
    LET allowed == {i \in DOMAIN call.emails : email_allowed(call.emails[i], call.site)}
    IN /\ allowed = {} => ret = <<>>
       /\ allowed # {} =>
            \E i \in allowed :
              /\ ret = call.emails[i]
              /\ \A j \in allowed :
                   /\ ~Preferred(Pref(call.name, call.emails[j], call.site),
                                 Pref(call.name, call.emails[i], call.site))
                   /\ Pref(call.name, call.emails[j], call.site)
                        = Pref(call.name, call.emails[i], call.site) => i <= j
       /\ (call.name = JohnSmith /\ call.emails = <<InfoAtExample, JSmithAtExample>>
           /\ call.site = ExampleEdu) => ret = JSmithAtExample
\* two different allowed candidates equally preferred: the first is returned
C5_TieKeepsEarliest ==
  /\ fpc = "returned" /\ call.fn = "pick_best_email"
  /\ Len(call.emails) = 2
  /\ call.emails[1] # call.emails[2]
  /\ email_allowed(call.emails[1], call.site)
  /\ email_allowed(call.emails[2], call.site)
  /\ Pref(call.name, call.emails[1], call.site) = Pref(call.name, call.emails[2], call.site)
  /\ ret = call.emails[1]

\* C6: normalize_email applied to its own result returns that result again.
C6_NormalizeEmailIdempotent ==
  fpc = "again" => ret2 = ret

\* C7: for the text "L [at] D", extract_emails returns the address L@D.
C7_BracketedAtExtracted ==
  (fpc = "returned" /\ call.fn = "extract_emails"
   /\ call.text = call.local \o BracketAt \o call.domain) =>
    \E i \in DOMAIN ret : ret[i] = call.local \o <<"@">> \o call.domain

\* C8: when the next-page link of the listing just processed resolves to that
\* listing's own URL, process_site ends its loop in that step: no further page
\* is loaded and the records accepted so far are what it returns.
C8_SelfLinkEndsPagination ==
  [][(pc = "profiles" /\ di > Len(html.links) /\ find_next_page(html, next_url) = next_url)
       => (pc' = "site_return" /\ results' = results /\ event'.kind = "none"
           /\ pages' = pages /\ next_url' = next_url)]_vars
\* process_site about to return, after a listing that links to itself and
\* with a record accepted
C8_StoppedOnSelfLink ==
  /\ pc = "site_return"
  /\ nxt # NoneURL /\ nxt = next_url
  /\ progress.message.text = "No further pages."
  /\ results # <<>>

\* the anchors of a listing that qualify as its next-page link: a[rel=next],
\* when the first of them has an href, else the anchors with a next text and an href
Qualifying(anchors) ==
  IF \E k \in DOMAIN anchors :
       anchors[k].rel_next /\ anchors[k].href # ""
       /\ \A j \in 1..(k - 1) : ~anchors[j].rel_next
    THEN {k \in DOMAIN anchors : anchors[k].rel_next}
    ELSE {k \in DOMAIN anchors : IsNextText(anchors[k].text) /\ anchors[k].href # ""}

\* C9 as stated: find_next_page returns none when no anchor matches and when the
\* match resolves to base_url; it never returns base_url.
C9_NeverReturnsCurrentPage ==
  (fpc = "returned" /\ call.fn = "find_next_page") =>
    /\ Qualifying(call.listing.anchors) = {} => ret = NoneURL
    /\ ret # call.base_url
\* C9, amended: find_next_page returns none exactly when no anchor qualifies;
\* else it returns the resolved URL of the first qualifying anchor, also when
\* that is base_url.
C9_ReturnsFirstMatchResolved ==
  (fpc = "returned" /\ call.fn = "find_next_page") =>
    LET q == Qualifying(call.listing.anchors)
    IN /\ q = {} <=> ret = NoneURL
       /\ q # {} =>
            \E k \in q : /\ \A j \in q : k <= j
                         /\ ret = urljoin(call.base_url, call.listing.anchors[k].href)
\* a listing whose next-page link resolves to the page itself: that URL is returned
C9_SelfLinkReturned ==
  /\ fpc = "returned" /\ call.fn = "find_next_page"
  /\ ret = call.base_url

\* C10: process_site calls client.fetch for no URL robots.txt disallows, and a
\* step that is refused leaves a progress message naming the refused URL.
C10_RobotsBeforeFetch ==
  /\ event.kind = "fetch" => event.url \notin disallowed
  /\ event.kind = "refused" =>
       /\ event.url \in disallowed
       /\ progress.message.url = event.url
       /\ progress.message.text \in {"Blocked by robots.txt: ", "Robots blocked profile: "}
\* a profile refused by robots.txt, the crawl going on with the next link
C10_ProfileRefused ==
  /\ event.kind = "refused"
  /\ event.url \in ProfileURLs
  /\ pc = "profiles"

\* the worker has finished: runner returned on its success or its exception path
Succeeded == pc = "finished"
Failed == pc = "failed"
Terminal == Succeeded \/ Failed

\* C11: progress["done"] is written true once in the life of a job, when the
\* job is in its terminal state, and is never false again after it.
C11_DoneWrittenOnce ==
  /\ done_writes <= 1
  /\ Terminal => (done_writes = 1 /\ progress.done)

\* the records of a list
Records(rs) == {rs[i] : i \in DOMAIN rs}

\* C12: an exception raised inside scrape_sites is caught by runner, whose next
\* two steps set done and the message "Error: ..."; the failed job has done =
\* true, that message, and rows that hold nothing but records accepted before
\* the failure.
C12_ExceptionCaughtInWorker ==
  /\ [](Failed => /\ progress.done
                  /\ progress.message.text = "Error: "
                  /\ Records(progress.rows) \subseteq Records(WithEmail(rows)))
  /\ [][/\ pc = "raised" => (pc' = "except_message" /\ progress'.done)
        /\ pc = "except_message" => (pc' = "failed" /\ progress'.done)]_vars
\* a job that failed at its second site, after the first gave it a record
C12_FailedAfterAccepting ==
  /\ Failed
  /\ site_idx = 2 /\ StripRaises(sites[2])
  /\ rows # <<>> /\ progress.visited > 0

\* C13: with max_profiles a non-negative integer, the list scrape_sites returns
\* never has more than max_profiles records, and neither has the list it
\* accumulates from the sites.
C13_ReturnedWithinCap ==
  max_profiles # NoLimit =>
    /\ Len(rows) <= max_profiles
    /\ Returned => Len(dedup) <= max_profiles
\* a job returned a full list and left a site of its list uncrawled
C13_CapCutsSiteList ==
  /\ Succeeded
  /\ max_profiles >= 1 /\ Len(dedup) = max_profiles
  /\ site_idx < Len(sites) /\ IsHttp(StripSite(sites[Len(sites)]))

\* rows grew by the records rs, in order, or by the first of them up to the cap
GrewBy(old, new, rs) ==
  /\ Len(new) >= Len(old) /\ Len(new) <= Len(old) + Len(rs)
  /\ SubSeq(new, 1, Len(old)) = old
  /\ \A k \in 1..(Len(new) - Len(old)) :
       /\ new[Len(old) + k].profile_url = rs[k].profile_url
       /\ new[Len(old) + k].email = rs[k].email
  /\ Len(new) < Len(old) + Len(rs) => CapReached(Len(new), max_profiles)

\* C14: a profile fetch without content leaves the crawl in the same listing at
\* the next link, with the records accepted so far; a listing fetch without
\* content ends the crawl of that site only: the site's records join the job's
\* rows and, unless the cap is reached, the site loop goes on to the next site.
C14_FailedFetchOnlySkips ==
  [][/\ (pc = "profiles" /\ event'.kind = "fetch"
         /\ progress'.message.text = "Failed to open profile: ")
          => (pc' = "profiles" /\ di' = di + 1 /\ results' = results /\ rows' = rows
              /\ html' = html /\ pages' = pages /\ ~progress'.done)
     /\ (pc = "listing" /\ event'.kind = "fetch"
         /\ progress'.message.text = "Failed to load listing: ")
          => (pc' = "site_return" /\ results' = results /\ rows' = rows /\ ~progress'.done)
     /\ (pc = "site_return" /\ progress.message.text = "Failed to load listing: ")
          => /\ GrewBy(rows, rows', results)
             /\ ~CapReached(Len(rows'), max_profiles)
                  => (pc' = "sites" /\ site_idx' = site_idx + 1)]_vars
\* the second page of the first site failed to load: the site's records are in
\* rows and the second site is about to be crawled
C14_NextSiteAfterFailedListing ==
  /\ pc = "sites" /\ site_idx = 2 /\ Len(sites) = 2 /\ IsHttp(StripSite(sites[2]))
  /\ progress.message.text = "Failed to load listing: "
  /\ pages >= 1 /\ results # <<>> /\ Len(rows) = Len(results)

\* C15: one run of process_site loads no more than MAX_PAGINATION_PAGES listing
\* pages and asks for a listing only while fewer than that many next-page links
\* have been followed.
C15_AtMostCeilingPages ==
  /\ Len(loaded) <= MAX_PAGINATION_PAGES
  /\ pages <= MAX_PAGINATION_PAGES
  /\ (event.kind = "fetch" /\ event.url \notin ProfileURLs) => pages < MAX_PAGINATION_PAGES
\* process_site returns after the ceiling's worth of pages of a chain of
\* next-page links that does not end
C15_ReturnedAtCeiling ==
  /\ pc = "site_return"
  /\ Len(loaded) = MAX_PAGINATION_PAGES /\ pages = MAX_PAGINATION_PAGES
  /\ next_url # NoneURL

\* C16: within one run of process_site no listing URL is loaded twice.
C16_NoListingLoadedTwice ==
  \A i, j \in DOMAIN loaded : i # j => loaded[i] # loaded[j]

\* C17: in a job with a limit the counter visited never exceeds the limit, and
\* a profile is fetched only while the job has accepted fewer records than the
\* limit, so that the records of all its sites are within the limit after it.
C17_VisitedWithinJobLimit ==
  progress.limit # NoLimit =>
    /\ progress.visited <= progress.limit
    /\ (event.kind = "fetch" /\ event.url \in ProfileURLs)
         => Len(rows) + Len(results) <= progress.limit

\* C18: a started job whose worker keeps being scheduled, every fetch and
\* robots check returning, reaches the end of runner with done = true, on the
\* success path or on the exception path.
C18_EventuallyDone ==
  (pc = "runner") ~> (Terminal /\ progress.done)
\* a job done after a crawl that followed next-page links up to the ceiling
C18_DoneAfterLongestCrawl ==
  /\ Succeeded /\ progress.done
  /\ pages = MAX_PAGINATION_PAGES

\* C19: once GET /status has reported done = true for a job that does not fail,
\* a GET /results after it returns the job's final rows: the records
\* scrape_sites returned that have an email.
C19_ResultsCompleteAfterDone ==
  (results_resp.code = 200 /\ status_resp.done /\ pc \notin {"except_message", "failed"})
    => results_resp.rows = CleanRows(WithEmail(dedup))

\* C20: when the worker has finished, on its success path or on its exception
\* path, the counter visited is the number of rows GET /results returns.
C20_VisitedCountsResults ==
  Terminal => progress.visited = Len(job_results(progress).rows)

\* the records the sites of the job have accepted: those already in rows and
\* those of the site crawled last
AcceptedRecords == Records(rows) \cup Records(results)

\* C21: when scrape_sites returns fewer than max_profiles records, no valid site
\* of the list was left uncrawled and every record a site accepted has a
\* record of its (name.lower(), profile_url) key in the returned list.
C21_CapOnlyTruncatesFullResult ==
  (Returned /\ max_profiles # NoLimit /\ Len(dedup) < max_profiles) =>
    /\ \A k \in (site_idx + 1)..Len(sites) : ~IsHttp(StripSite(sites[k]))
    /\ \A r \in AcceptedRecords : \E d \in Records(dedup) : KeyOf(d) = KeyOf(r)

\* C22: for a text that is one well-formed address local@domain, extract_emails
\* returns that address and nothing else.
C22_WellFormedAddressUnchanged ==
  (fpc = "returned" /\ call.fn = "extract_emails"
   /\ call.text = call.local \o <<"@">> \o call.domain) =>
    ret = <<call.text>>
====
